---- MODULE Spec2Model ----
(***************************************************************************)
(* Job partitioning and submission of the non-Spark ingestion on Google    *)
(* Batch: batch_common.py (DataSourceBase), data_sources.py (EqtlCatalogue,*)
(* UkbPppEur) and submit.py (the command line entry point).                *)
(*                                                                         *)
(* Strings are sequences of pieces: a piece is one separator character     *)
(* (":", "_", "-", "/", "=", "."), one digit of a formatted time, or a     *)
(* separator-free run.  Every string of the model is written in this one   *)
(* tokenisation, so two strings are equal exactly when their sequences are *)
(* equal, and str.replace, str.join and f-string concatenation work piece  *)
(* by piece.                                                               *)
(***************************************************************************)
EXTENDS Integers, Sequences, FiniteSets, TLC

VARIABLES
    raw,              \* class -> the raw manifest at study_index_source (lines of cells)
    storage,          \* class -> the file at _get_study_index_location()
    max_parallelism,  \* DataSourceBase.max_parallelism of the descriptors
    pc,               \* position of the entry point (submit.py)
    data_source,      \* the class the entry point resolved
    ingested,         \* ingest_study_index returned in this run
    staging,          \* outcome of deploy_code_to_storage in this run
    call_made,        \* the gcloud submission call was made in this run
    clock,            \* datetime.now(timezone.utc), in ticks
    submissions,      \* the job ids built so far, each with its class and second
    job_config,       \* the document _generate_job_config wrote in this run
    job_config_file,  \* the temporary file of this run's submission
    task,             \* the last ingest_single_summary_stats invocation
    jobs              \* class -> the job of that source the execution engine holds

vars == <<raw, storage, max_parallelism, pc, data_source, ingested, staging, call_made,
          clock, submissions, job_config, job_config_file, task, jobs>>

----------------------------------------------------------------------------
(* Bounds of the model. *)

MaxRows == 2            \* the raw manifests have at most MaxRows rows together
MaxParallelismBound == 2 \* max_parallelism ranges over 1..MaxParallelismBound
MaxClock == 2           \* the clock ticks at most MaxClock times
TicksPerSecond == 2     \* clock ticks per UTC second (strftime drops the rest)

----------------------------------------------------------------------------
(* Program constants. *)

cpu_per_task == 4
mem_per_task_gb == 4
maxRetryCount == 1
maxRunDurationSeconds == 3600

all_data_source_classes == {"EqtlCatalogue", "UkbPppEur"}

data_source_name(c) ==
    IF c = "EqtlCatalogue" THEN <<"eqtl", "_", "catalogue">>
    ELSE <<"ukb", "_", "ppp", "_", "eur">>

gcp_output_path == <<"gs:", "/", "/", "gentropy", "-", "tmp", "/", "batch", "/", "output">>

summary_stats_prefix ==
    <<"gs:", "/", "/", "gentropy", "-", "vault", "/", "ukb", "-", "ppp", "/", "European">>

ExcludedProteinID == <<"GLIPR1", ":", "P48060", ":", "OID31517", ":", "v1">>

----------------------------------------------------------------------------
(* Strings. *)

\* str.replace(old, new) for a one-piece old and new
Replace(s, old, new) == [k \in 1..Len(s) |-> IF s[k] = old THEN new ELSE s[k]]

RECURSIVE Join(_, _)
\* sep.join(parts)
Join(sep, parts) ==
    IF Len(parts) = 0 THEN <<>>
    ELSE IF Len(parts) = 1 THEN parts[1]
    ELSE parts[1] \o sep \o Join(sep, Tail(parts))

Digits == <<"0", "1", "2", "3", "4", "5", "6", "7", "8", "9">>

Min(a, b) == IF a <= b THEN a ELSE b

----------------------------------------------------------------------------
(* pandas: cells, frames, read_table and to_csv. *)

\* the float NaN pandas puts in place of a missing value
NaN == <<"<NaN>">>

\* the cell texts read_table takes for a missing value (the ones the model uses)
NaValues == {<<>>, <<"NA">>}

\* read_table's parse of one cell
ParseCell(text) == IF text \in NaValues THEN NaN ELSE text

\* to_csv's text of one cell (na_rep is the empty string)
FormatCell(v) == IF v = NaN THEN <<>> ELSE v

\* str(v) as an f-string formats it
Str(v) == IF v = NaN THEN <<"nan">> ELSE v

\* read_table with the index starting at one
ReadTableFromOne(lines) ==
    [k \in 1..Len(lines) |->
        [label |-> k,
         row |-> [col \in DOMAIN lines[k] |-> ParseCell(lines[k][col])]]]

\* pd.read_table: the lines parsed cell by cell under a fresh RangeIndex 0..n-1
ReadTable(lines) ==
    [k \in 1..Len(lines) |->
        [label |-> k - 1,
         row |-> [col \in DOMAIN lines[k] |-> ParseCell(lines[k][col])]]]

\* DataFrame.to_csv(sep="\t", index=False): the rows in order, labels dropped
ToCsv(frame) ==
    [k \in 1..Len(frame) |->
        [col \in DOMAIN frame[k].row |-> FormatCell(frame[k].row[col])]]

\* frame[frame["UKBPPP_ProteinID"] != value]: the rows kept, each under the label it had
FilterNotEqual(frame, column, value) ==
    SelectSeq(frame, LAMBDA e : e.row[column] # value)

Labels(frame) == {frame[k].label : k \in 1..Len(frame)}

\* the row one position after the label's
LocOffByOne(frame, label) ==
    LET k == CHOOSE k \in 1..Len(frame) : frame[k].label = label
    IN  frame[IF k < Len(frame) THEN k + 1 ELSE 1].row

\* frame.loc[label].to_dict(): the row under that label (KeyError when there is none)
Loc(frame, label) ==
    LET k == CHOOSE k \in 1..Len(frame) : frame[k].label = label
    IN  frame[k].row

----------------------------------------------------------------------------
(* DataSourceBase: locations and the persisted study index. *)

NoFile == [exists |-> FALSE, lines |-> <<>>]

\* f"{self.gcp_output_path}/{self.data_source_name}/summary_stats.parquet"
_get_summary_stats_location(c) ==
    gcp_output_path \o <<"/">> \o data_source_name(c)
        \o <<"/", "summary", "_", "stats", ".", "parquet">>

\* pd.read_table(self._get_study_index_location()), the file being there
_get_study_index(c) == ReadTable(storage[c].lines)

\* the number of tasks taken from the raw manifest
NumberOfTasksFromRaw(c) == Len(raw[c])

\* the number of lines of the file, its header line counted
NumberOfTasksWithHeader(c) == Len(_get_study_index(c)) + 1

\* len(self._get_study_index())
_get_number_of_tasks(c) == Len(_get_study_index(c))

----------------------------------------------------------------------------
(* EqtlCatalogue. *)

\* read the original metadata table and save it with no modifications
EqtlStudyIndex(lines) == ReadTable(lines)

\* the SparkPrep arguments of one record
EqtlWorker(c, record) ==
    [input_uri |-> record["ftp_path"],
     output_base_path |->
        _get_summary_stats_location(c) \o <<"/", "qtl", "_", "group", "=">>
            \o Str(record["qtl_group"])]

----------------------------------------------------------------------------
(* UkbPppEur. *)

\* the row makes _process_study_index raise: NaN has no replace(), join() takes no float
ProcessRaises(row) ==
    \/ row["UKBPPP_ProteinID"] = NaN
    \/ row["HGNC.symbol"] = NaN
    \/ row["UniProt2"] = NaN
    \/ row["OlinkID"] = NaN

\* _process_study_index: (study_id, summary_stats_link) of a row
_process_study_index(row) ==
    LET converted_id == Replace(row["UKBPPP_ProteinID"], ":", "_")
        summary_stats_filename ==
            converted_id \o <<"_">> \o Str(row["Panel"]) \o <<".", "tar">>
        summary_stats_link == summary_stats_prefix \o <<"/">> \o summary_stats_filename
        study_id ==
            Join(<<"_">>, << <<"UKB", "_", "PPP", "_", "EUR">>, row["HGNC.symbol"],
                            row["UniProt2"], row["OlinkID"], <<"v1">> >>)
    IN  [study_id |-> study_id, summary_stats_link |-> summary_stats_link]

\* the raw table with no row dropped
UkbUnfiltered(lines) == ReadTable(lines)

\* manual case 1: the one study without summary stats is dropped
UkbFiltered(lines) ==
    FilterNotEqual(ReadTable(lines), "UKBPPP_ProteinID", ExcludedProteinID)

\* the frame ingest_study_index saves: the kept rows with the two derived columns
UkbStudyIndex(lines) ==
    LET kept == UkbFiltered(lines)
    IN  [k \in 1..Len(kept) |->
            [label |-> kept[k].label,
             row |-> LET p == _process_study_index(kept[k].row)
                         r == kept[k].row
                     IN  [col \in DOMAIN r \cup {"_gentropy_study_id",
                                                 "_gentropy_summary_stats_link"} |->
                            IF col = "_gentropy_study_id" THEN p.study_id
                            ELSE IF col = "_gentropy_summary_stats_link"
                                 THEN p.summary_stats_link
                            ELSE r[col]]]]

\* ingest_study_index raises before anything is saved: a row it cannot process, or
\* no row left (zip(*...) of the empty frame does not unpack into two columns)
UkbIngestRaises(lines) ==
    LET kept == UkbFiltered(lines)
    IN  \/ Len(kept) = 0
        \/ \E k \in 1..Len(kept) : ProcessRaises(kept[k].row)

\* the SparkPrep arguments of one record
UkbWorker(c, record) ==
    [input_uri |-> record["_gentropy_summary_stats_link"],
     output_base_path |->
        _get_summary_stats_location(c) \o <<"/", "studyId", "=">>
            \o Str(record["_gentropy_study_id"])]

Worker(c, record) ==
    IF c = "EqtlCatalogue" THEN EqtlWorker(c, record) ELSE UkbWorker(c, record)

----------------------------------------------------------------------------
(* The raw manifests the sources publish (external input). *)

\* the rows in the order the source lists them
EqtlRelease ==
    << [qtl_group |-> <<"LCL">>, ftp_path |-> <<"ftp", "/", "ge">>],
       [qtl_group |-> <<"LCL">>, ftp_path |-> <<"ftp", "/", "exon">>],
       [qtl_group |-> <<"NA">>, ftp_path |-> <<"ftp", "/", "tx">>] >>

EqtlRawRows == {EqtlRelease[i] : i \in DOMAIN EqtlRelease}

UkbRow(protein, hgnc, uniprot, olink) ==
    [col \in {"UKBPPP_ProteinID", "Panel", "HGNC.symbol", "UniProt2", "OlinkID"} |->
        IF col = "UKBPPP_ProteinID" THEN protein
        ELSE IF col = "Panel" THEN <<"Oncology">>
        ELSE IF col = "HGNC.symbol" THEN hgnc
        ELSE IF col = "UniProt2" THEN uniprot
        ELSE olink]

\* the rows in the order the source lists them
UkbRelease ==
    << UkbRow(<<"AMY1A", "_", "AMY1B", ":", "P0DUB6", ":", "OID30707", ":", "v1">>,
              <<"AMY1A", "_", "AMY1B">>, <<"P0DUB6">>, <<"OID30707">>),
       UkbRow(<<"AMY1A", ":", "AMY1B", "_", "P0DUB6", ":", "OID30707", ":", "v1">>,
              <<"AMY1A">>, <<"AMY1B", "_", "P0DUB6">>, <<"OID30707">>),
       UkbRow(ExcludedProteinID, <<"GLIPR1">>, <<"P48060">>, <<"OID31517">>),
       UkbRow(<<"NPPB", ":", "P16860", ":", "OID20125", ":", "v1">>,
              <<"NA">>, <<"P16860">>, <<"OID20125">>) >>

UkbRawRows == {UkbRelease[i] : i \in DOMAIN UkbRelease}

RawRows(c) == IF c = "EqtlCatalogue" THEN EqtlRawRows ELSE UkbRawRows

Release(c) == IF c = "EqtlCatalogue" THEN EqtlRelease ELSE UkbRelease

Manifests(c) == UNION {[1..n -> RawRows(c)] : n \in 0..MaxRows}

----------------------------------------------------------------------------
(* The state after construction: nothing persisted, nothing submitted. *)

NoTask == [set |-> FALSE]

NoJobConfig == [written |-> FALSE]

\* no job of the source was created
NoJob == [created |-> FALSE]

Init ==
    /\ raw \in [all_data_source_classes -> UNION {Manifests(c) : c \in all_data_source_classes}]
    /\ \A c \in all_data_source_classes : raw[c] \in Manifests(c)
    /\ Len(raw["EqtlCatalogue"]) + Len(raw["UkbPppEur"]) <= MaxRows
    /\ storage = [c \in all_data_source_classes |-> NoFile]
    /\ max_parallelism \in 1..MaxParallelismBound
    /\ pc = "idle"
    /\ data_source = "EqtlCatalogue"
    /\ ingested = FALSE
    /\ staging = "none"
    /\ call_made = FALSE
    /\ clock = 0
    /\ submissions = {}
    /\ job_config = NoJobConfig
    /\ job_config_file = "none"
    /\ task = NoTask
    /\ jobs = [c \in all_data_source_classes |-> NoJob]

----------------------------------------------------------------------------
(* submit.py: the entry point. *)

\* lines 16-19: parse the arguments and look up the data source class by its name
ResolveDataSource(c) ==
    /\ pc \in {"idle", "done", "aborted"}
    /\ data_source' = c
    /\ pc' = "ingest"
    /\ ingested' = FALSE
    /\ staging' = "none"
    /\ call_made' = FALSE
    /\ job_config' = NoJobConfig
    /\ job_config_file' = "none"
    /\ UNCHANGED <<raw, storage, max_parallelism, clock, submissions, task, jobs>>

\* the frame ingest_study_index of class c builds from the raw lines
StudyIndexFrame(c, lines) ==
    IF c = "EqtlCatalogue" THEN EqtlStudyIndex(lines) ELSE UkbStudyIndex(lines)

IngestRaises(c, lines) == c = "UkbPppEur" /\ UkbIngestRaises(lines)

\* ingest_study_index with its exception swallowed: the run goes on
IngestStudyIndexSwallows ==
    /\ pc = "ingest"
    /\ \E raw_readable \in BOOLEAN :
         IF raw_readable /\ ~IngestRaises(data_source, raw[data_source])
         THEN /\ storage' = [storage EXCEPT ![data_source] =
                    [exists |-> TRUE,
                     lines |-> ToCsv(StudyIndexFrame(data_source, raw[data_source]))]]
              /\ ingested' = TRUE
         ELSE /\ storage' = storage
              /\ ingested' = FALSE
    /\ pc' = "deploy"
    /\ UNCHANGED <<raw, max_parallelism, data_source, staging, call_made, clock,
                   submissions, job_config, job_config_file, task, jobs>>

\* ingest_study_index that has written the header when processing raises
IngestStudyIndexPartial ==
    /\ pc = "ingest"
    /\ \E raw_readable \in BOOLEAN :
         IF raw_readable /\ ~IngestRaises(data_source, raw[data_source])
         THEN /\ storage' = [storage EXCEPT ![data_source] =
                    [exists |-> TRUE,
                     lines |-> ToCsv(StudyIndexFrame(data_source, raw[data_source]))]]
              /\ ingested' = TRUE
              /\ pc' = "deploy"
         ELSE /\ storage' = [storage EXCEPT ![data_source] =
                    [exists |-> TRUE, lines |-> <<>>]]
              /\ ingested' = FALSE
              /\ pc' = "aborted"
    /\ UNCHANGED <<raw, max_parallelism, data_source, staging, call_made, clock,
                   submissions, job_config, job_config_file, task, jobs>>

\* ingest_study_index that appends to the file at the location (to_csv mode "a")
IngestStudyIndexAppends ==
    /\ pc = "ingest"
    /\ \E raw_readable \in BOOLEAN :
         IF raw_readable /\ ~IngestRaises(data_source, raw[data_source])
         THEN /\ storage' = [storage EXCEPT ![data_source] =
                    [exists |-> TRUE,
                     lines |-> storage[data_source].lines
                        \o ToCsv(StudyIndexFrame(data_source, raw[data_source]))]]
              /\ ingested' = TRUE
              /\ pc' = "deploy"
         ELSE /\ storage' = storage
              /\ ingested' = FALSE
              /\ pc' = "aborted"
    /\ UNCHANGED <<raw, max_parallelism, data_source, staging, call_made, clock,
                   submissions, job_config, job_config_file, task, jobs>>

\* line 22: data_source.ingest_study_index(); an exception ends the run
IngestStudyIndex ==
    /\ pc = "ingest"
    /\ \E raw_readable \in BOOLEAN :
         IF raw_readable /\ ~IngestRaises(data_source, raw[data_source])
         THEN /\ storage' = [storage EXCEPT ![data_source] =
                    [exists |-> TRUE,
                     lines |-> ToCsv(StudyIndexFrame(data_source, raw[data_source]))]]
              /\ ingested' = TRUE
              /\ pc' = "deploy"
         ELSE /\ storage' = storage
              /\ ingested' = FALSE
              /\ pc' = "aborted"
    /\ UNCHANGED <<raw, max_parallelism, data_source, staging, call_made, clock,
                   submissions, job_config, job_config_file, task, jobs>>

\* line 25: data_source.deploy_code_to_storage(); run(..., check=False) returns whatever
\* gsutil's exit status and raises only when gsutil cannot be launched
DeployCodeToStorage ==
    /\ pc = "deploy"
    /\ \E outcome \in {"ok", "failed", "not_launched"} :
         /\ staging' = IF outcome = "ok" THEN "ok" ELSE "failed"
         /\ pc' = IF outcome = "not_launched" THEN "aborted" ELSE "submit"
    /\ UNCHANGED <<raw, storage, max_parallelism, data_source, ingested, call_made, clock,
                   submissions, job_config, job_config_file, task, jobs>>

----------------------------------------------------------------------------
(* DataSourceBase: the job config and the submission. *)

\* parallelism without the cap by the number of tasks
ParallelismUncapped(number_of_tasks) == max_parallelism

\* min(number_of_tasks, self.max_parallelism)
Parallelism(number_of_tasks) == Min(number_of_tasks, max_parallelism)

\* a job config that lets the engine retry a failed task twice
GenerateJobConfigTwoRetries(c, job_id) ==
    LET number_of_tasks == _get_number_of_tasks(c)
    IN  [written |-> TRUE,
         class |-> c,
         script |-> <<"bash /mnt/share/code/runner.sh", job_id, data_source_name(c)>>,
         cpuMilli |-> cpu_per_task * 1000,
         memoryMib |-> cpu_per_task * mem_per_task_gb * 1024,
         maxRetryCount |-> maxRetryCount + 1,
         maxRunDuration |-> maxRunDurationSeconds,
         taskCount |-> number_of_tasks,
         parallelism |-> Parallelism(number_of_tasks),
         machineType |-> <<"n2d-highmem", cpu_per_task>>,
         provisioningModel |-> "SPOT"]

\* the document _generate_job_config writes to output_filename
_generate_job_config(c, job_id) ==
    LET number_of_tasks == _get_number_of_tasks(c)
    IN  [written |-> TRUE,
         class |-> c,
         script |-> <<"bash /mnt/share/code/runner.sh", job_id, data_source_name(c)>>,
         cpuMilli |-> cpu_per_task * 1000,
         memoryMib |-> cpu_per_task * mem_per_task_gb * 1024,
         maxRetryCount |-> maxRetryCount,
         maxRunDuration |-> maxRunDurationSeconds,
         taskCount |-> number_of_tasks,
         parallelism |-> Parallelism(number_of_tasks),
         machineType |-> <<"n2d-highmem", cpu_per_task>>,
         provisioningModel |-> "SPOT"]

\* the job id prefix that ignores the source name
BatchSafeNameFixed(name) == <<"gentropy">>

\* self.data_source_name.replace("_", "-")
BatchSafeName(name) == Replace(name, "_", "-")

\* current_utc_time.strftime("%Y%m%d-%H%M%S"): the whole seconds, in fixed width
FormattedTime(now) ==
    LET seconds == now \div TicksPerSecond
    IN  <<Digits[((seconds \div 10) % 10) + 1], Digits[(seconds % 10) + 1]>>

\* f"{batch_safe_name}-{formatted_time}"
JobId(c, now) == BatchSafeName(data_source_name(c)) \o <<"-">> \o FormattedTime(now)

\* line 28: data_source.submit_summary_stats_ingestion()
SubmitSummaryStatsIngestion ==
    /\ pc = "submit"
    /\ LET c == data_source
           job_id == JobId(c, clock)
       IN  /\ submissions' = submissions \cup
                    {[class |-> c, second |-> clock \div TicksPerSecond, job_id |-> job_id]}
           /\ \E index_readable \in BOOLEAN,
                 outcome \in {"accepted", "rejected", "not_launched"} :
                IF ~(storage[c].exists /\ index_readable)
                THEN \* _generate_job_config raises in read_table
                     /\ job_config_file' = "exists"
                     /\ job_config' = job_config
                     /\ call_made' = call_made
                     /\ pc' = "aborted"
                ELSE /\ job_config' = _generate_job_config(c, job_id)
                     /\ IF outcome = "not_launched"
                        THEN \* run() raises before os.remove
                             /\ job_config_file' = "exists"
                             /\ call_made' = call_made
                             /\ pc' = "aborted"
                        ELSE \* check=False: the exit status is not looked at
                             /\ job_config_file' = "removed"
                             /\ call_made' = TRUE
                             /\ pc' = "done"
    /\ UNCHANGED <<raw, storage, max_parallelism, data_source, ingested, staging, clock,
                   task, jobs>>

\* time passes
Tick ==
    /\ clock < MaxClock
    /\ clock' = clock + 1
    /\ UNCHANGED <<raw, storage, max_parallelism, pc, data_source, ingested, staging,
                   call_made,
                   submissions, job_config, job_config_file, task, jobs>>

----------------------------------------------------------------------------
(* The task resolver: one dispatched task of the job. *)

\* frame.loc[task_index] has a row: task_index is a label of the frame
LocFinds(frame, task_index) == task_index \in Labels(frame)

\* what ingest_single_summary_stats(task_index) of class c comes to
TaskOutcome(c, task_index) ==
    IF ~storage[c].exists
    THEN [set |-> TRUE, class |-> c, task_index |-> task_index, status |-> "read_error"]
    ELSE LET study_index == _get_study_index(c)
         IN  IF LocFinds(study_index, task_index)
             THEN [set |-> TRUE, class |-> c, task_index |-> task_index,
                   status |-> "processed",
                   worker |-> Worker(c, Loc(study_index, task_index))]
             ELSE [set |-> TRUE, class |-> c, task_index |-> task_index,
                   status |-> "key_error"]

\* ingest_single_summary_stats(task_index) of class c
IngestSingleSummaryStats(c, task_index) ==
    /\ task' = TaskOutcome(c, task_index)
    /\ UNCHANGED <<raw, storage, max_parallelism, pc, data_source, ingested, staging,
                   call_made, clock, submissions, job_config, job_config_file, jobs>>

----------------------------------------------------------------------------

\* one run after another of the entry point
Submitter ==
    \/ \E c \in all_data_source_classes : ResolveDataSource(c)
    \/ IngestStudyIndex
    \/ DeployCodeToStorage
    \/ SubmitSummaryStatsIngestion

\* the tasks the execution engine runs, with whatever ordinal it hands them
Tasks ==
    \E c \in all_data_source_classes, task_index \in -1..MaxRows :
        IngestSingleSummaryStats(c, task_index)

Next == Submitter \/ Tick

\* the submissions as time passes
Spec == Init /\ [][Next]_vars

NextTasks == Submitter \/ Tasks

\* the submissions and the dispatched tasks, within one tick of the clock
SpecTasks == Init /\ [][NextTasks]_vars

----------------------------------------------------------------------------
(* The execution engine acting on the job configs it is given, and the raw
   manifests changing at their sources between runs of the entry point. *)

\* the job id in the script text of a job config
JobIdOf(config) == config.script[2]

\* the ordinals of a job whose task has neither succeeded nor used up its attempts
Pending(job) ==
    IF job.created
    THEN {i \in 0..(job.config.taskCount - 1) :
              i \notin job.succeeded /\ job.attempts[i] < 1 + job.config.maxRetryCount}
    ELSE {}

\* the engine creates the job of the gcloud call, unless its namespace has the job id
EngineCreatesJob ==
    /\ pc = "done"
    /\ call_made
    /\ job_config.written
    /\ job_config.taskCount >= 1
    /\ LET c == data_source
       IN  /\ ~(jobs[c].created /\ JobIdOf(jobs[c].config) = JobIdOf(job_config))
           /\ jobs' = [jobs EXCEPT ![c] =
                  [created |-> TRUE,
                   config |-> job_config,
                   index |-> storage[c].lines,
                   attempts |-> [i \in 0..(job_config.taskCount - 1) |-> 0],
                   succeeded |-> {}]]
    /\ UNCHANGED <<raw, storage, max_parallelism, pc, data_source, ingested, staging,
                   call_made, clock, submissions, job_config, job_config_file, task>>

\* the engine runs one attempt of a pending task: runner.sh hands the task its
\* ordinal, and the worker, the time limit or a preemption decide how it ends
EngineRunsTask(c, task_index) ==
    /\ task_index \in Pending(jobs[c])
    /\ task' = TaskOutcome(c, task_index)
    /\ \E worker_ok \in BOOLEAN :
          jobs' = [jobs EXCEPT
                     ![c].attempts[task_index] = @ + 1,
                     ![c].succeeded =
                         IF worker_ok /\ task'.status = "processed"
                         THEN @ \cup {task_index} ELSE @]
    /\ UNCHANGED <<raw, storage, max_parallelism, pc, data_source, ingested, staging,
                   call_made, clock, submissions, job_config, job_config_file>>

\* between two runs the raw manifest at study_index_source loses its first row
UpstreamChanges(c) ==
    /\ pc \in {"idle", "done", "aborted"}
    /\ raw[c] # <<>>
    /\ raw' = [raw EXCEPT ![c] = Tail(@)]
    /\ UNCHANGED <<storage, max_parallelism, pc, data_source, ingested, staging,
                   call_made, clock, submissions, job_config, job_config_file, task, jobs>>

Engine ==
    \/ EngineCreatesJob
    \/ \E c \in all_data_source_classes, task_index \in 0..(MaxRows - 1) :
          EngineRunsTask(c, task_index)

Upstream == \E c \in all_data_source_classes : UpstreamChanges(c)

NextEngine == Submitter \/ Engine \/ Upstream

\* the first rows of each raw manifest as listed, and nothing done yet
InitEngine ==
    /\ Init
    /\ \A c \in all_data_source_classes :
          \E n \in 0..Len(Release(c)) : raw[c] = SubSeq(Release(c), 1, n)

\* the submissions, the jobs the engine runs for them and the raw manifests
\* changing, within one tick of the clock
SpecEngine == InitEngine /\ [][NextEngine]_vars

----------------------------------------------------------------------------
(* The claims. *)

\* the row at position i (from 0) of the persisted index of class c, as read back
PersistedRow(c, i) ==
    [col \in DOMAIN storage[c].lines[i + 1] |-> ParseCell(storage[c].lines[i + 1][col])]

RowCount(c) == Len(storage[c].lines)

\* C1: the job config written for a persisted index of task_count >= 1 rows has
\* taskCount = task_count and parallelism = min(task_count, max_parallelism), which
\* is at least 1 and at most taskCount
C1_ParallelismIsMinOfTaskCountAndMax ==
    job_config.written =>
        /\ job_config.taskCount = RowCount(job_config.class)
        /\ job_config.taskCount >= 1 =>
             /\ job_config.parallelism <= job_config.taskCount
             /\ job_config.parallelism <= max_parallelism
             /\ job_config.parallelism \in {job_config.taskCount, max_parallelism}
             /\ job_config.parallelism >= 1

\* a job config of more tasks than max_parallelism was written, capped at max_parallelism
C1_Witness ==
    /\ job_config.written
    /\ job_config.taskCount > max_parallelism
    /\ job_config.parallelism = max_parallelism

\* C2: in a run of ingest_study_index followed by submit_summary_stats_ingestion, the
\* taskCount of the job config handed to the submission call is the number of rows of
\* the study index persisted at the source's location
C2_TaskCountIsPersistedRowCount ==
    call_made =>
        /\ storage[data_source].exists
        /\ job_config.written
        /\ job_config.class = data_source
        /\ job_config.taskCount = RowCount(data_source)

\* a UkbPppEur job was submitted whose index has fewer rows than the raw manifest
C2_Witness ==
    /\ call_made
    /\ data_source = "UkbPppEur"
    /\ job_config.taskCount = RowCount(data_source)
    /\ RowCount(data_source) < Len(raw[data_source])

\* C3: whatever happened before, ingest_single_summary_stats(i) with i in
\* [0, row_count) hands the worker the parameters derived from the row at position i
\* of the persisted index (a step that changes task is one invocation, task' its result)
C3_TaskResolvesRowAtOrdinal ==
    [][(/\ task' # task
        /\ storage[task'.class].exists
        /\ task'.task_index \in 0..(RowCount(task'.class) - 1))
          => /\ task'.status = "processed"
             /\ task'.worker =
                    Worker(task'.class, PersistedRow(task'.class, task'.task_index))]_vars

\* a task processed a row that is not the first of its index
C3_Witness ==
    /\ task.set
    /\ task.status = "processed"
    /\ task.task_index >= 1
    /\ task.worker = Worker(task.class, PersistedRow(task.class, task.task_index))

\* C4: ingest_single_summary_stats with an ordinal outside [0, row_count) of the
\* persisted index raises: it selects no row and does not invoke the worker
C4_OrdinalOutOfRangeRaises ==
    [][(/\ task' # task
        /\ storage[task'.class].exists
        /\ task'.task_index \notin 0..(RowCount(task'.class) - 1))
          => /\ task'.status = "key_error"
             /\ "worker" \notin DOMAIN task']_vars

\* a task was given the ordinal row_count of a persisted index with rows, and raised
C4_Witness ==
    /\ task.set
    /\ storage[task.class].exists
    /\ RowCount(task.class) >= 1
    /\ task.task_index = RowCount(task.class)
    /\ task.status = "key_error"

\* the output_base_path task i of class c hands the worker
OutputBasePath(c, i) == Worker(c, Loc(_get_study_index(c), i)).output_base_path

\* C5: any two distinct ordinals of a persisted study index resolve to distinct
\* output_base_path values
C5_OutputPathsDistinct ==
    \A c \in all_data_source_classes :
        storage[c].exists =>
            \A i, j \in 0..(RowCount(c) - 1) :
                i # j => OutputBasePath(c, i) # OutputBasePath(c, j)

\* C6: for a persisted index of zero rows no job config with taskCount 0 is written
\* and the submission call is not made
C6_EmptyIndexNotSubmitted ==
    /\ job_config.written => job_config.taskCount >= 1
    /\ call_made => RowCount(data_source) >= 1

\* C7: any two distinct calls of submit_summary_stats_ingestion build distinct job
\* identifiers: a call never builds an identifier an earlier call built
C7_JobIdsUnique ==
    [][SubmitSummaryStatsIngestion =>
          JobId(data_source, clock) \notin {s.job_id : s \in submissions}]_vars

\* C8: submissions of two sources with different names within the same second build
\* distinct job identifiers
C8_DistinctNamesDistinctJobIds ==
    \A s, t \in submissions :
        (data_source_name(s.class) # data_source_name(t.class) /\ s.second = t.second)
            => s.job_id # t.job_id

\* two sources were submitted within the same second
C8_Witness ==
    \E s, t \in submissions :
        /\ data_source_name(s.class) # data_source_name(t.class)
        /\ s.second = t.second
        /\ s.job_id # t.job_id

\* C9: the submission call is never made after a failed code staging
C9_NoSubmissionAfterFailedStaging == call_made => staging = "ok"

\* C10: the temporary job config file no longer exists when
\* submit_summary_stats_ingestion ends, by return or by exception
C10_TemporaryFileReleased == job_config_file # "exists"

\* C11: in every run the code staging and the submission call happen only after
\* ingest_study_index returned and the study index is persisted; after a failed
\* manifest build neither is performed
C11_SubmissionOnlyAfterPersistedIndex ==
    (staging # "none" \/ call_made \/ job_config_file # "none" \/ job_config.written) =>
        /\ ingested
        /\ storage[data_source].exists
        /\ storage[data_source].lines =
                ToCsv(StudyIndexFrame(data_source, raw[data_source]))

\* a run whose manifest build failed has ended with no staging and no submission,
\* although an earlier run left an index at the location
C11_Witness ==
    /\ pc = "aborted"
    /\ ~ingested
    /\ storage[data_source].exists
    /\ staging = "none"
    /\ ~call_made
    /\ job_config_file = "none"

\* the number of rows of the raw manifest of class c that its cleaning rule keeps
KeptRawRows(c) ==
    IF c = "EqtlCatalogue" THEN Len(raw[c])
    ELSE Cardinality({k \in 1..Len(raw[c]) :
                        raw[c][k]["UKBPPP_ProteinID"] # ExcludedProteinID})

\* the columns of the persisted index of class c
IndexColumns(c) ==
    IF c = "EqtlCatalogue" THEN {"qtl_group", "ftp_path"}
    ELSE {"UKBPPP_ProteinID", "Panel", "HGNC.symbol", "UniProt2", "OlinkID",
          "_gentropy_study_id", "_gentropy_summary_stats_link"}

\* file is a complete index of class c: every kept row, with every column filled in
CompleteIndex(c, file) ==
    /\ file.exists
    /\ Len(file.lines) = KeptRawRows(c)
    /\ \A k \in 1..Len(file.lines) :
          /\ DOMAIN file.lines[k] = IndexColumns(c)
          /\ c = "UkbPppEur" =>
                /\ file.lines[k]["_gentropy_study_id"] # <<>>
                /\ file.lines[k]["_gentropy_summary_stats_link"] # <<>>

\* C12: ingest_study_index is all-or-nothing: it returns with a complete index
\* persisted, or it raises and the study index location is as it was before the call
C12_IngestAllOrNothing ==
    [][(pc = "ingest" /\ pc' # "ingest") =>
          \/ /\ pc' = "deploy"
             /\ CompleteIndex(data_source, storage'[data_source])
             /\ \A c \in all_data_source_classes \ {data_source} :
                    storage'[c] = storage[c]
          \/ /\ pc' = "aborted"
             /\ storage' = storage]_vars

\* ingest_study_index raised while processing a raw manifest that has rows
C12_Witness ==
    /\ pc = "aborted"
    /\ ~ingested
    /\ staging = "none"
    /\ Len(raw[data_source]) >= 1
    /\ IngestRaises(data_source, raw[data_source])

\* C13: ingest_study_index run again on the unchanged raw manifest leaves the
\* persisted study index as the first run left it
C13_IngestIdempotent ==
    [][(pc = "ingest" /\ pc' = "deploy" /\ storage[data_source].exists) =>
          storage' = storage]_vars

\* ingest_study_index returned for a source that an earlier run had submitted
C13_Witness ==
    /\ pc = "deploy"
    /\ ingested
    /\ RowCount(data_source) >= 1
    /\ \E s \in submissions : s.class = data_source

\* the raw UkbPppEur row of the excluded protein, as ingest_single_summary_stats would
\* resolve it had it been kept
ExcludedWorker ==
    LET excluded == CHOOSE r \in UkbRawRows : r["UKBPPP_ProteinID"] = ExcludedProteinID
        derived == _process_study_index(ReadTable(<<excluded>>)[1].row)
    IN  UkbWorker("UkbPppEur",
                  ("_gentropy_study_id" :> derived.study_id)
                    @@ ("_gentropy_summary_stats_link" :> derived.summary_stats_link))

\* the number of rows of the raw UkbPppEur manifest that are the excluded protein's
ExcludedRawRows ==
    Cardinality({k \in 1..Len(raw["UkbPppEur"]) :
                    raw["UkbPppEur"][k]["UKBPPP_ProteinID"] = ExcludedProteinID})

\* C15: for UkbPppEur, whose cleaning rule excludes the row of one protein, a raw
\* manifest holding that row leaves a persisted index of raw_row_count - 1 rows, and
\* no ordinal of the index resolves to an input link or an output path of that protein
C15_ExcludedRowNeverResolved ==
    storage["UkbPppEur"].exists =>
        /\ ExcludedRawRows = 1 => RowCount("UkbPppEur") = Len(raw["UkbPppEur"]) - 1
        /\ \A i \in 0..(RowCount("UkbPppEur") - 1) :
              LET worker == Worker("UkbPppEur", Loc(_get_study_index("UkbPppEur"), i))
              IN  /\ PersistedRow("UkbPppEur", i)["UKBPPP_ProteinID"] # ExcludedProteinID
                  /\ worker.input_uri # ExcludedWorker.input_uri
                  /\ worker.output_base_path # ExcludedWorker.output_base_path
        /\ (task.set /\ task.class = "UkbPppEur" /\ task.status = "processed") =>
              /\ task.worker.input_uri # ExcludedWorker.input_uri
              /\ task.worker.output_base_path # ExcludedWorker.output_base_path

\* a task of UkbPppEur was processed from an index that lacks the excluded row of
\* the raw manifest
C15_Witness ==
    /\ storage["UkbPppEur"].exists
    /\ ExcludedRawRows = 1
    /\ RowCount("UkbPppEur") = Len(raw["UkbPppEur"]) - 1
    /\ task.set
    /\ task.class = "UkbPppEur"
    /\ task.status = "processed"

\* the position in the frame of the row under the label
Position(frame, label) == CHOOSE k \in 1..Len(frame) : frame[k].label = label

\* C17: after build and submit, the ordinals 0..taskCount-1 cover the persisted index
\* exactly: each ordinal is in range, each row is owned by exactly one ordinal, and a
\* task of the job with such an ordinal does not hit the out-of-range error
C17_TasksPartitionIndex ==
    call_made =>
        LET study_index == _get_study_index(data_source)
            ordinals == 0..(job_config.taskCount - 1)
        IN  /\ \A i \in ordinals : LocFinds(study_index, i)
            /\ \A k \in 1..RowCount(data_source) :
                  Cardinality({i \in ordinals :
                                 /\ LocFinds(study_index, i)
                                 /\ Position(study_index, i) = k}) = 1
            /\ (task.set /\ task.class = data_source /\ task.task_index \in ordinals
                    /\ task.status # "read_error")
                  => task.status = "processed"

\* a job of two tasks was submitted and its task of ordinal 1 was processed
C17_Witness ==
    /\ call_made
    /\ job_config.taskCount = 2
    /\ task.set
    /\ task.class = data_source
    /\ task.task_index = 1
    /\ task.status = "processed"

----------------------------------------------------------------------------
(* The job spec generator, the index under a running job, and retries. *)

\* a job config with the job id taken out of its script text
WithoutJobIdentity(config) == [config EXCEPT !.script[2] = <<>>]

\* C14: two calls of _generate_job_config for the same source descriptor write
\* the same document except for the job id: the document a run writes is, job
\* id aside, the document of the job the engine already holds for that source.
C14_JobConfigDependsOnDescriptorOnly ==
    [][(job_config'.written /\ ~job_config.written /\ jobs[data_source].created)
          => WithoutJobIdentity(job_config') =
                 WithoutJobIdentity(jobs[data_source].config)]_vars

\* C16: while a job of a source has tasks that have not finished, the persisted
\* study index of that source is not modified.
C16_IndexFrozenWhileJobRuns ==
    [][\A c \in all_data_source_classes :
          Pending(jobs[c]) # {} => storage'[c] = storage[c]]_vars

\* the row at position task_index of the index as it was when the job was created
RowAtSubmission(c, task_index) == Loc(ReadTable(jobs[c].index), task_index)

\* C18: every job config written declares maxRetryCount 1 and maxRunDuration
\* 3600 s, no task of a job is attempted more than twice, and an attempt of
\* task i made while the index is as it was at submission resolves the row at
\* position i of that index into the same worker parameters, whatever the
\* number of attempts made before.
C18_RetriesBoundedAndRederived ==
    [][/\ job_config'.written
            => job_config'.maxRetryCount = 1 /\ job_config'.maxRunDuration = 3600
       /\ \A c \in all_data_source_classes :
            jobs'[c].created =>
              \A i \in DOMAIN jobs'[c].attempts :
                /\ jobs'[c].attempts[i] <= 2
                /\ (/\ jobs[c].created
                    /\ jobs'[c].attempts[i] = jobs[c].attempts[i] + 1
                    /\ storage[c].exists
                    /\ storage[c].lines = jobs[c].index)
                   => /\ task'.class = c
                      /\ task'.task_index = i
                      /\ task'.status = "processed"
                      /\ task'.worker = Worker(c, RowAtSubmission(c, i))]_vars

\* a second attempt of a task ended, the index being as it was at submission
C18_Witness ==
    \E c \in all_data_source_classes :
        /\ jobs[c].created
        /\ storage[c].exists
        /\ storage[c].lines = jobs[c].index
        /\ task.set
        /\ task.class = c
        /\ task.status = "processed"
        /\ jobs[c].attempts[task.task_index] = 2
        /\ task.task_index \notin jobs[c].succeeded

====
